---- MODULE Spec2Model ----
(***************************************************************************)
(* Regular-Recycler: the trash sweep of RegularRecycler.py / empty.trash.py *)
(* (the two scripts share walk, delete, is_empty and the loop of main).    *)
(*                                                                         *)
(* The filesystem is a small tree: two candidate trash roots r1 and r2,    *)
(* a directory d and a file f in r1, a file c and a symlink l (to r2) in   *)
(* d, and a file g in r2.  Which of them exist, their modification times   *)
(* and their sizes are chosen in Init.  Times are in seconds and sizes in  *)
(* bytes, as in main.                                                      *)
(***************************************************************************)
EXTENDS Integers, Sequences, FiniteSets

\* ------------------------------------------------------------- bounds
\* Number of paths the resolvers (user_dirs, get_trash) yield.
NumDirs == 2
\* Number of successive invocations of the script that are followed.
MaxRuns == 2

\* ---------------------------------------------------- program constants
\* argparse defaults of --age (days), --largesize (MB), --largeage (days).
DefaultAge == 365
DefaultLargeSize == 100
DefaultLargeAge == 64

\* main: thresholds converted to seconds and bytes.
min_age == DefaultAge * 86400
large_min_size == DefaultLargeSize * 1000000
large_min_age == DefaultLargeAge * 86400

\* time.time(): the clock, the same for every entry and every run.
Now == 1000 * 86400

\* ----------------------------------------------------------- filesystem
Roots == {"r1", "r2"}
Nodes == {"r1", "r2", "d", "f", "c", "l", "g"}
NoEntry == "none"

\* The directory holding each entry (os.scandir of the parent lists it).
Parent(n) ==
  CASE n = "d" -> "r1"
    [] n = "f" -> "r1"
    [] n = "c" -> "d"
    [] n = "l" -> "d"
    [] n = "g" -> "r2"
    [] OTHER -> NoEntry

\* d_type of each entry: what DirEntry.is_symlink / is_dir are answered from.
Kind(n) ==
  CASE n \in {"r1", "r2", "d"} -> "dir"
    [] n = "l" -> "link"
    [] OTHER -> "file"

\* The symlink l points to the directory r2.
Target(n) == IF n = "l" THEN "r2" ELSE n

\* st_size of a directory.
DirSize == 4096

\* Ages (days) and sizes (bytes) the entries are created with.
FileAgeDays == {10, 64, 70, 365, 400}
DirAgeDays == {10, 400}
FileSizes == {5000000, 150000000}

VARIABLES
  present,      \* the entries that exist in the filesystem
  mtime,        \* st_mtime of each entry
  fsize,        \* st_size of each entry
  writable,     \* the roots os.access(dirname, os.W_OK) grants
  dirs,         \* main: the list of trash folders to explore
  DESTROY,      \* global flag --destroy
  run,          \* which invocation of the script is running
  pc,           \* position of main: "dirs", "walk", "body", "done", "crashed"
  error,        \* the uncaught exception that ended main, or "none"
  idx,          \* position of `for dirname in dirs`
  stack,        \* the frames of the recursive generator walk
  explored,     \* the roots announced by print('Exploring:', dirname)
  seen,         \* the entries of this root the loop body has stat'ed and counted
  entry, size, age,                               \* locals of main's loop
  del_count, total_count, del_size, total_size,   \* counters of main
  prev          \* the summary of the previous invocation

fsvars == <<present, mtime, fsize, writable>>
counters == <<del_count, total_count, del_size, total_size>>
locals == <<entry, size, age>>
vars == <<present, mtime, fsize, writable, dirs, DESTROY, run, pc, error, idx,
          stack, explored, seen, entry, size, age,
          del_count, total_count, del_size, total_size, prev>>

\* ------------------------------------------------------ os / DirEntry
\* Path resolution follows a symlink.
Resolve(n) == IF Kind(n) = "link" THEN Target(n) ELSE n

\* os.scandir(path): the entries of the directory at path.
scandir(path) == {n \in present : Parent(n) = Resolve(path)}

\* DirEntry.is_symlink()
is_symlink(e) == Kind(e) = "link"

\* DirEntry.is_dir(): follows symlinks.
is_dir(e) == Kind(Resolve(e)) = "dir" /\ Resolve(e) \in present

\* is_empty(path): not next(os.scandir(path), None)
is_empty(path) == scandir(path) = {}

\* walk: `if entry.is_dir() and not entry.is_symlink()`
RecursesFollowingLinks(e) == is_dir(e)
Recurses(e) == is_dir(e) /\ ~is_symlink(e)

\* main: first branch, the empty stale directory.
EmptyStaleDir(e, a) == is_dir(e) /\ a > min_age /\ is_empty(e)

\* main: second branch, stale or large-and-aging.
EligibleNoLargeAge(s, a) == a > min_age \/ s > large_min_size
EligibleStaleOnly(s, a) == a > min_age
Eligible(s, a) == a > min_age \/ (s > large_min_size /\ a > large_min_age)

\* delete: `if DESTROY:`
RemovesAlways == TRUE
Removes == DESTROY

\* os.remove(path) raises IsADirectoryError on a directory.
RemoveRaises(e) == Kind(e) = "dir"

\* os.remove(path) on a file: the entry is unlinked and the mtime of the
\* directory holding it is set to the current time.
Unlinked(e) == present \ {e}
Touched(e) == [mtime EXCEPT ![Parent(e)] = Now]

\* ------------------------------------------------------------------ Init
Stamp(days) == Now - days * 86400

InitTrees ==
  { p \in SUBSET {"r2", "d", "f", "c", "l", "g"} :
      /\ ("c" \in p \/ "l" \in p) => "d" \in p
      /\ "g" \in p => "r2" \in p }

\* The attributes of the entries that exist are drawn from the sets above;
\* an entry that does not exist has none to choose.
Among(n, p, values, default) == IF n \in p THEN values ELSE {default}

Init ==
  /\ \E p \in InitTrees :
       /\ present = p \cup {"r1"}
       /\ \E fa \in Among("f", p, FileAgeDays, 400),
             ca \in Among("c", p, DirAgeDays, 400),
             da \in Among("d", p, DirAgeDays, 400) :
            mtime = [n \in Nodes |->
                       CASE n = "f" -> Stamp(fa)
                         [] n = "c" -> Stamp(ca)
                         [] n = "d" -> Stamp(da)
                         [] OTHER -> Stamp(400)]
       /\ \E fs \in Among("f", p, FileSizes, 5000000) :
            fsize = [n \in Nodes |->
                       CASE Kind(n) = "dir" -> DirSize
                         [] n = "f" -> fs
                         [] OTHER -> 5000000]
  /\ \E w \in {{"r1"}, {"r1", "r2"}} : writable = w
  /\ dirs \in [1..NumDirs -> Roots]
  /\ DESTROY \in BOOLEAN
  /\ run = 1
  /\ pc = "dirs"
  /\ error = "none"
  /\ idx = 1
  /\ stack = <<>>
  /\ explored = <<>>
  /\ seen = {}
  /\ entry = NoEntry /\ size = 0 /\ age = 0
  /\ del_count = 0 /\ total_count = 0 /\ del_size = 0 /\ total_size = 0
  /\ prev = [destroy |-> FALSE, ended |-> "none", del_count |-> 0,
             total_count |-> 0, del_size |-> 0, total_size |-> 0]

\* --------------------------------------------------- main: the roots loop
\* `if not os.path.exists(dirname): continue`
NotFound ==
  /\ pc = "dirs" /\ idx <= Len(dirs)
  /\ dirs[idx] \notin present
  /\ idx' = idx + 1
  /\ UNCHANGED seen
  /\ UNCHANGED <<fsvars, dirs, DESTROY, run, pc, error, stack, explored,
                 locals, counters, prev>>

\* `if not os.access(dirname, os.W_OK): continue`
NoPermission ==
  /\ pc = "dirs" /\ idx <= Len(dirs)
  /\ dirs[idx] \in present
  /\ dirs[idx] \notin writable
  /\ idx' = idx + 1
  /\ UNCHANGED seen
  /\ UNCHANGED <<fsvars, dirs, DESTROY, run, pc, error, stack, explored,
                 locals, counters, prev>>

\* print('Exploring:', dirname); walk(dirname) starts with os.scandir(dirname).
Explore ==
  /\ pc = "dirs" /\ idx <= Len(dirs)
  /\ dirs[idx] \in present
  /\ dirs[idx] \in writable
  /\ explored' = Append(explored, dirs[idx])
  /\ stack' = <<[dir |-> dirs[idx], todo |-> scandir(dirs[idx])]>>
  /\ pc' = "walk"
  /\ seen' = {}
  /\ UNCHANGED <<fsvars, dirs, DESTROY, run, error, idx, locals, counters, prev>>

\* The loop over dirs is exhausted: the summary is printed.
Summary ==
  /\ pc = "dirs" /\ idx > Len(dirs)
  /\ pc' = "done"
  /\ UNCHANGED seen
  /\ UNCHANGED <<fsvars, dirs, DESTROY, run, error, idx, stack, explored,
                 locals, counters, prev>>

\* ------------------------------------------------------ walk (generator)
Top == stack[Len(stack)]
Rest(e) == [stack EXCEPT ![Len(stack)].todo = @ \ {e}]

\* A walk that yields a subdirectory when it enters it, ahead of its entries.
WalkRecurseYieldsFirst ==
  /\ pc = "walk"
  /\ \E e \in Top.todo :
       /\ Recurses(e)
       /\ stack' = Append(Rest(e), [dir |-> e, todo |-> scandir(e)])
       /\ entry' = e
  /\ pc' = "body"
  /\ UNCHANGED <<fsvars, dirs, DESTROY, run, error, idx, explored, seen,
                 size, age, counters, prev>>

\* A subdirectory is entered before it is yielded: yield from walk(entry.path).
WalkRecurse ==
  /\ pc = "walk"
  /\ \E e \in Top.todo :
       /\ Recurses(e)
       /\ stack' = Append(Rest(e), [dir |-> e, todo |-> scandir(e)])
  /\ UNCHANGED seen
  /\ UNCHANGED <<fsvars, dirs, DESTROY, run, pc, error, idx, explored,
                 locals, counters, prev>>

\* Any other entry is yielded at once.
WalkYield ==
  /\ pc = "walk"
  /\ \E e \in Top.todo :
       /\ ~Recurses(e)
       /\ stack' = Rest(e)
       /\ entry' = e
  /\ pc' = "body"
  /\ UNCHANGED seen
  /\ UNCHANGED <<fsvars, dirs, DESTROY, run, error, idx, explored,
                 size, age, counters, prev>>

\* A nested walk is exhausted: its directory is yielded by the caller.
WalkReturn ==
  /\ pc = "walk"
  /\ Top.todo = {} /\ Len(stack) > 1
  /\ entry' = Top.dir
  /\ stack' = SubSeq(stack, 1, Len(stack) - 1)
  /\ pc' = "body"
  /\ UNCHANGED seen
  /\ UNCHANGED <<fsvars, dirs, DESTROY, run, error, idx, explored,
                 size, age, counters, prev>>

\* The walk of the root is exhausted: next dirname.
WalkEnd ==
  /\ pc = "walk"
  /\ Top.todo = {} /\ Len(stack) = 1
  /\ stack' = <<>>
  /\ idx' = idx + 1
  /\ pc' = "dirs"
  /\ UNCHANGED seen
  /\ UNCHANGED <<fsvars, dirs, DESTROY, run, error, explored,
                 locals, counters, prev>>

\* ------------------------------------------------- main: the loop body
\* `if entry.is_symlink(): continue`
SkipSymlink ==
  /\ pc = "body"
  /\ is_symlink(entry)
  /\ pc' = "walk"
  /\ UNCHANGED seen
  /\ UNCHANGED <<fsvars, dirs, DESTROY, run, error, idx, stack, explored,
                 locals, counters, prev>>

\* entry.stat(follow_symlinks=False) on an entry that is gone raises
\* FileNotFoundError, which nothing catches.
StatFails ==
  /\ pc = "body"
  /\ ~is_symlink(entry)
  /\ entry \notin present
  /\ pc' = "crashed"
  /\ error' = "FileNotFoundError"
  /\ UNCHANGED seen
  /\ UNCHANGED <<fsvars, dirs, DESTROY, run, idx, stack, explored,
                 locals, counters, prev>>

\* stat, the running totals, then the first branch: delete(entry, size, age)
\* without counting.  os.remove raises on the directory.
PruneEmptyDir ==
  /\ pc = "body"
  /\ ~is_symlink(entry)
  /\ entry \in present
  /\ size' = fsize[entry]
  /\ age' = Now - mtime[entry]
  /\ total_count' = total_count + 1
  /\ total_size' = total_size + size'
  /\ EmptyStaleDir(entry, age')
  /\ IF Removes
       THEN IF RemoveRaises(entry)
              THEN /\ pc' = "crashed" /\ error' = "IsADirectoryError"
                   /\ UNCHANGED <<present, mtime>>
              ELSE /\ pc' = "walk" /\ error' = error
                   /\ present' = Unlinked(entry) /\ mtime' = Touched(entry)
       ELSE /\ pc' = "walk" /\ error' = error
            /\ UNCHANGED <<present, mtime>>
  /\ seen' = seen \cup {entry}
  /\ UNCHANGED <<fsize, writable, dirs, DESTROY, run, idx, stack, explored,
                 entry, del_count, del_size, prev>>

\* stat, the running totals, then the second branch: delete(entry, size, age),
\* del_count += 1, del_size += size.
DeleteEligible ==
  /\ pc = "body"
  /\ ~is_symlink(entry)
  /\ entry \in present
  /\ size' = fsize[entry]
  /\ age' = Now - mtime[entry]
  /\ total_count' = total_count + 1
  /\ total_size' = total_size + size'
  /\ ~EmptyStaleDir(entry, age')
  /\ Eligible(size', age')
  /\ IF Removes
       THEN IF RemoveRaises(entry)
              THEN /\ pc' = "crashed" /\ error' = "IsADirectoryError"
                   /\ UNCHANGED <<present, mtime, del_count, del_size>>
              ELSE /\ pc' = "walk" /\ error' = error
                   /\ present' = Unlinked(entry) /\ mtime' = Touched(entry)
                   /\ del_count' = del_count + 1
                   /\ del_size' = del_size + size'
       ELSE /\ pc' = "walk" /\ error' = error
            /\ UNCHANGED <<present, mtime>>
            /\ del_count' = del_count + 1
            /\ del_size' = del_size + size'
  /\ seen' = seen \cup {entry}
  /\ UNCHANGED <<fsize, writable, dirs, DESTROY, run, idx, stack, explored,
                 entry, prev>>

\* stat, the running totals, and neither branch: the entry is kept.
Keep ==
  /\ pc = "body"
  /\ ~is_symlink(entry)
  /\ entry \in present
  /\ size' = fsize[entry]
  /\ age' = Now - mtime[entry]
  /\ total_count' = total_count + 1
  /\ total_size' = total_size + size'
  /\ ~EmptyStaleDir(entry, age')
  /\ ~Eligible(size', age')
  /\ pc' = "walk"
  /\ seen' = seen \cup {entry}
  /\ UNCHANGED <<fsvars, dirs, DESTROY, run, error, idx, stack, explored,
                 entry, del_count, del_size, prev>>

\* ------------------------------------------------------- the next run
\* The script is started again: the resolvers yield the same list, the
\* counters start at 0, --destroy is given or not.
Rerun ==
  /\ pc \in {"done", "crashed"}
  /\ run < MaxRuns
  /\ run' = run + 1
  /\ prev' = [destroy |-> DESTROY, ended |-> pc, del_count |-> del_count,
              total_count |-> total_count, del_size |-> del_size,
              total_size |-> total_size]
  /\ DESTROY' \in BOOLEAN
  /\ pc' = "dirs" /\ error' = "none" /\ idx' = 1
  /\ stack' = <<>> /\ explored' = <<>>
  /\ entry' = NoEntry /\ size' = 0 /\ age' = 0
  /\ del_count' = 0 /\ total_count' = 0 /\ del_size' = 0 /\ total_size' = 0
  /\ seen' = {}
  /\ UNCHANGED <<fsvars, dirs>>

\* ----------------------------------------------------- the environment
\* Another process removes a file that the walk has already enumerated.
Enumerated ==
  UNION {stack[i].todo : i \in 1..Len(stack)}
    \cup (IF pc = "body" THEN {entry} ELSE {})

ExternalRemove ==
  /\ pc \in {"walk", "body"}
  /\ \E n \in Enumerated \cap present :
       /\ Kind(n) = "file"
       /\ present' = Unlinked(n)
       /\ mtime' = Touched(n)
  /\ UNCHANGED seen
  /\ UNCHANGED <<fsize, writable, dirs, DESTROY, run, pc, error, idx, stack,
                 explored, locals, counters, prev>>

\* ------------------------------------------------------ specifications
Next ==
  \/ NotFound \/ NoPermission \/ Explore \/ Summary
  \/ WalkRecurse \/ WalkYield \/ WalkReturn \/ WalkEnd
  \/ SkipSymlink \/ PruneEmptyDir \/ DeleteEligible \/ Keep
  \/ Rerun

\* No outside change to the trees while the script runs.
Spec == Init /\ [][Next]_vars

NextEnv == Next \/ StatFails \/ ExternalRemove

\* Other processes may remove files while the script runs.
SpecEnv == Init /\ [][NextEnv]_vars

\* ---------------------------------------------------------------- claims
\* The loop body is about to classify the entry e: it is no symlink and
\* its stat succeeds.
Classifying(e) == pc = "body" /\ entry = e /\ ~is_symlink(e) /\ e \in present
AgeOf(e) == Now - mtime[e]

\* The entry e was the last one classified, with the size and age in the
\* locals of main.
Classified(e) == pc \in {"walk", "dirs", "done"} /\ entry = e /\ ~is_symlink(e)

\* C1: an entry (file or directory) that is not a symlink, with
\* age <= min_age and (size <= large_min_size or age <= large_min_age), is
\* not removed, in dry-run and in destroy mode alike; total_count grows by
\* one and deleted_count and deleted_bytes stay as they are.
C1_YoungEntryKept ==
  [][ \A e \in Nodes :
        ( /\ Classifying(e)
          /\ AgeOf(e) <= min_age
          /\ (fsize[e] <= large_min_size \/ AgeOf(e) <= large_min_age) )
        => ( /\ present' = present
             /\ pc' = "walk"
             /\ total_count' = total_count + 1
             /\ del_count' = del_count
             /\ del_size' = del_size ) ]_vars

\* A large file younger than large_min_age went through the loop body in
\* destroy mode and is still there.
C1_Witness ==
  /\ Classified("f") /\ DESTROY /\ "f" \in present
  /\ size > large_min_size /\ age <= large_min_age
  /\ total_count >= 1 /\ del_count = 0

\* C2: an entry that is neither a symlink nor a directory, with
\* age > min_age whatever its size, or with size > large_min_size and
\* age > large_min_age while age <= min_age, is removed in destroy mode, and
\* in both modes deleted_count grows by one and deleted_bytes by its size.
C2_EligibleFileDeleted ==
  [][ \A e \in Nodes :
        ( /\ Classifying(e)
          /\ ~is_dir(e)
          /\ \/ AgeOf(e) > min_age
             \/ ( /\ fsize[e] > large_min_size
                  /\ AgeOf(e) > large_min_age
                  /\ AgeOf(e) <= min_age ) )
        => ( /\ DESTROY => e \notin present'
             /\ ~DESTROY => present' = present
             /\ del_count' = del_count + 1
             /\ del_size' = del_size + fsize[e] ) ]_vars

\* A large file between large_min_age and min_age was removed in destroy
\* mode and counted.
C2_Witness ==
  /\ Classified("f") /\ DESTROY /\ "f" \notin present
  /\ size > large_min_size /\ age > large_min_age /\ age <= min_age
  /\ del_count >= 1 /\ del_size >= size

\* C3: without --destroy no step of the sweep changes the filesystem, and a
\* second dry run over the unchanged tree, with the same thresholds and
\* clock, ends with the counters of the first.
C3_DryRunPure ==
  [][ /\ ~DESTROY => fsvars' = fsvars
      /\ ( run' = 2 /\ pc' = "done" /\ ~DESTROY' /\ ~prev'.destroy )
         => ( /\ prev'.ended = "done"
              /\ total_count' = prev'.total_count
              /\ del_count' = prev'.del_count
              /\ total_size' = prev'.total_size
              /\ del_size' = prev'.del_size ) ]_vars

\* A second dry run has ended after a first dry run that flagged entries.
C3_Witness ==
  /\ run = 2 /\ pc = "done" /\ ~DESTROY /\ ~prev.destroy
  /\ prev.del_count >= 2 /\ del_count = prev.del_count
  /\ total_count > del_count

\* C4: a symlink below a root is never removed, never measured (the
\* counters and the locals size and age are left alone when it is yielded)
\* and never recursed through, in dry-run and in destroy mode alike.
C4_SymlinkSkipped ==
  [][ /\ \A n \in present : is_symlink(n) => n \in present'
      /\ (pc = "body" /\ is_symlink(entry))
         => ( /\ counters' = counters
              /\ size' = size /\ age' = age
              /\ fsvars' = fsvars
              /\ pc' = "walk" )
      /\ \A i \in 1..Len(stack') : ~is_symlink(stack'[i].dir) ]_vars

\* The symlink l, which points to an existing directory holding a file, was
\* yielded and passed over in destroy mode.
C4_Witness ==
  /\ pc = "walk" /\ entry = "l" /\ DESTROY
  /\ "l" \in present /\ is_dir("l") /\ ~is_empty("l")

\* C5: in destroy mode a directory that is empty when classified and older
\* than min_age is removed from the filesystem, is not added to
\* deleted_count or deleted_bytes, and the sweep goes on.
C5_EmptyStaleDirRemoved ==
  [][ \A e \in Nodes :
        ( /\ Classifying(e) /\ DESTROY
          /\ is_dir(e) /\ is_empty(e) /\ AgeOf(e) > min_age )
        => ( /\ e \notin present'
             /\ del_count' = del_count
             /\ del_size' = del_size
             /\ pc' = "walk" ) ]_vars

\* C6: a directory that has a child when it is classified is left in place
\* however old it is: no removal is attempted on it and it is not added to
\* deleted_count or deleted_bytes.
C6_NonEmptyDirLeftAlone ==
  [][ \A e \in Nodes :
        ( Classifying(e) /\ is_dir(e) /\ ~is_empty(e) )
        => ( /\ present' = present
             /\ pc' = "walk"
             /\ del_count' = del_count
             /\ del_size' = del_size ) ]_vars

\* C7: a failing stat of one entry does not end the run.
C7_StatFailureNotFatal == ~(pc = "crashed" /\ error = "FileNotFoundError")

\* The root an entry lies below, and whether main explores that root.
RootOf(n) == IF Parent(n) \in Roots THEN Parent(n) ELSE Parent(Parent(n))
Swept(n) ==
  /\ n \in present \ Roots
  /\ RootOf(n) \in present \cap writable
  /\ \E i \in 1..Len(dirs) : dirs[i] = RootOf(n)

\* What the classification rule makes of an entry as it is now.
StillEligible(n) ==
  /\ ~is_symlink(n)
  /\ IF is_dir(n) THEN EmptyStaleDir(n, AgeOf(n))
                  ELSE Eligible(fsize[n], AgeOf(n))

\* C8: a destroy run removes every eligible entry, so that a second destroy
\* run over the same roots, with the same thresholds and clock, removes
\* nothing and ends with deleted_count = 0.
C8_SecondDestroyRunDeletesNothing ==
  /\ (run = 1 /\ DESTROY /\ pc \in {"done", "crashed"})
     => \A n \in Nodes : Swept(n) => ~StillEligible(n)
  /\ (run = 2 /\ DESTROY /\ prev.destroy /\ pc \in {"done", "crashed"})
     => (pc = "done" /\ del_count = 0)

\* C9: the list of roots is deduplicated: no directory is explored twice in
\* a run, so no entry is counted twice.
C9_RootsExploredOnce ==
  /\ \A i, j \in 1..Len(explored) : explored[i] = explored[j] => i = j
  /\ total_count <= Cardinality({n \in Nodes \ Roots : ~is_symlink(n)})

\* C10: a dry run ends with the deleted_count and deleted_bytes of a
\* destroy run over the same initial tree, thresholds and clock (stated
\* here for lists of roots that name no directory twice).
C10_DryRunPredictsDestroy ==
  ( /\ run = 2 /\ pc = "done" /\ DESTROY
    /\ ~prev.destroy /\ prev.ended = "done"
    /\ \A i, j \in 1..Len(dirs) : dirs[i] = dirs[j] => i = j )
  => ( del_count = prev.del_count /\ del_size = prev.del_size )

\* C11: within a root the classification is post-order: when the loop body
\* reads the age and the emptiness of a directory, the walk of that
\* directory is over, every entry in it that is no symlink has been through
\* the loop body, and in destroy mode none that is left is eligible, so the
\* emptiness test sees the directory as the removals left it.
C11_PostOrder ==
  \A e \in Nodes :
    (Classifying(e) /\ is_dir(e))
    => /\ \A i \in 1..Len(stack) : stack[i].dir # e
       /\ \A n \in scandir(e) :
            ~is_symlink(n) => (n \in seen /\ (DESTROY => ~StillEligible(n)))

\* In destroy mode the file c was classified and removed, and then the
\* directory d that held it was classified with the age the removal left.
C11_Witness ==
  /\ Classified("d") /\ DESTROY
  /\ "c" \in seen /\ "c" \notin present
  /\ "d" \in seen /\ age = 0

====
